---- MODULE Spec2Model ----
(***************************************************************************)
(* Model of Codes/Python/snake_game_ai.py: the SnakeGame engine            *)
(* (construction, generate_food, move_snake, change_direction, ai_move,    *)
(* draw_game, load/save of the high score, reset_game) and the menu loop   *)
(* of SnakeGameInterface that drives it.                                   *)
(*                                                                         *)
(* Spec          : one SnakeGame object whose methods are called in any    *)
(*                 order (construction, reset_game, change_direction,      *)
(*                 ai_move, move_snake).                                   *)
(* SpecInterface : main() / SnakeGameInterface.run, sessions of manual and *)
(*                 AI play sharing the high-score file.                    *)
(***************************************************************************)
EXTENDS Integers, Sequences, FiniteSets

VARIABLES
    width, height,      \* SnakeGame.width / .height
    snake,              \* SnakeGame.snake, head first
    direction,          \* SnakeGame.direction
    food,               \* SnakeGame.food
    score,              \* SnakeGame.score
    game_over,          \* SnakeGame.game_over
    ai_mode,            \* SnakeGame.ai_mode
    difficulty,         \* SnakeGame.difficulty, the delay between moves
    high_score,         \* SnakeGame.high_score (in memory)
    store,              \* the file snake_high_score.json
    call,               \* "none": no object yet, "idle": constructed and no call
                        \* running, "looping": inside generate_food's while True
                        \* with no free cell, "raised": the constructor raised
    pc,                 \* position of the caller (harness or interface loop)
    key,                \* the key read by the last input() of play_manual_game
    last,               \* history: the last method called and its argument
    stored_before,      \* history: value in the store when the session began
    moved,              \* history: the direction the last move_snake call on a
                        \* live game used, "none" after construction and reset
    writes,             \* history: writes of the store since the session began
    arr,                \* bubble_sort: the list being sorted in place
    orig,               \* bubble_sort: the list as it was passed in
    bi, bj              \* bubble_sort: the loop variables i and j

gvars == <<width, height, snake, direction, food, score, game_over,
           ai_mode, difficulty, high_score, store, call>>
sortvars == <<arr, orig, bi, bj>>
vars == <<width, height, snake, direction, food, score, game_over,
          ai_mode, difficulty, high_score, store, call, pc, key, last,
          stored_before, moved, writes, arr, orig, bi, bj>>

----------------------------------------------------------------------------
(* Bounds *)

\* eating is disabled once the snake has this many segments
MaxLen == 4
\* the store may already hold 0, 10, .. 10 * MaxStored when the program starts
MaxStored == 2
\* (width, height) pairs passed to SnakeGame(width, height) under Spec; on
\* these grids the methods are called in any order
GridSizes == {<<1, 1>>, <<2, 2>>, <<3, 3>>}
\* the 5 x 5 grid of the end-to-end scenario: on it the snake is only stepped
\* (consecutive move_snake calls with no direction change)
ScenarioSizes == {<<5, 5>>}
\* (width, height) standing for the default 20 x 15 that SnakeGameInterface uses
InterfaceSize == <<3, 3>>

----------------------------------------------------------------------------
(* Direction and Position *)

Direction == {"UP", "DOWN", "LEFT", "RIGHT"}

\* Direction.value: the (row, col) delta
DirValue(d) ==
    CASE d = "UP"    -> <<-1, 0>>
      [] d = "DOWN"  -> <<1, 0>>
      [] d = "LEFT"  -> <<0, -1>>
      [] d = "RIGHT" -> <<0, 1>>

\* definition order of the enum, which is also the insertion order of the
\* directions dict in ai_move
DirOrder == <<"UP", "DOWN", "LEFT", "RIGHT">>

Position(r, c) == [row |-> r, col |-> c]

NoPosition == Position(-1, -1)

Range(s) == {s[i] : i \in 1..Len(s)}

Abs(x) == IF x < 0 THEN -x ELSE x

InBounds(p, w, h) == 0 <= p.row /\ p.row < h /\ 0 <= p.col /\ p.col < w

Cells(w, h) == {Position(r, c) : r \in 0..(h - 1), c \in 0..(w - 1)}

FoodChoicesAnyCell(s, w, h) == Cells(w, h)

\* the values generate_food can return: a random cell that is not in the snake
FoodChoices(s, w, h) == {p \in Cells(w, h) : p \notin Range(s)}

Center(w, h) == Position(h \div 2, w \div 2)

\* self.difficulty: the delays of __init__ and show_settings, in seconds
DefaultDifficulty == "0.1"

Difficulties == {"0.2", "0.1", "0.05"}

----------------------------------------------------------------------------
(* The high-score file *)

Absent   == [kind |-> "absent",  high_score |-> 0]
Corrupt  == [kind |-> "corrupt", high_score |-> 0]   \* not valid JSON
NoKey    == [kind |-> "nokey",   high_score |-> 0]   \* valid JSON object without the key
Stored(n) == [kind |-> "value",  high_score |-> n]   \* {"high_score": n}

InitialStores == {Absent, Corrupt, NoKey} \cup {Stored(10 * k) : k \in 0..MaxStored}

\* the high score a reader of the store sees (an empty store counts as 0)
StoreValue(st) == IF st.kind = "value" THEN st.high_score ELSE 0

\* load_high_score: the value returned, or a raise that nothing catches
LoadRaises(st) == st.kind = "corrupt"

load_high_score(st) ==
    CASE st.kind = "absent" -> 0                 \* except FileNotFoundError
      [] st.kind = "nokey"  -> 0                 \* data.get('high_score', 0)
      [] st.kind = "value"  -> st.high_score
      [] OTHER              -> 0                 \* not reached: LoadRaises

----------------------------------------------------------------------------
(* generate_food, as a step of the method that calls it: s is self.snake at  *)
(* the time of the call                                                    *)

generate_food(s) ==
    IF FoodChoices(s, width, height) = {}
    THEN /\ call' = "looping"
         /\ food' = food
    ELSE /\ call' = "idle"
         /\ food' \in FoodChoices(s, width, height)

----------------------------------------------------------------------------
(* SnakeGame.__init__ *)

Construct(w, h) ==
    /\ call = "none"
    /\ width' = w
    /\ height' = h
    /\ snake' = <<Center(w, h)>>
    /\ direction' = "RIGHT"
    /\ IF FoodChoices(<<Center(w, h)>>, w, h) = {}
       THEN \* generate_food never returns: nothing after line 52 runs
            /\ call' = "looping"
            /\ UNCHANGED <<food, score, game_over, ai_mode, difficulty, high_score>>
       ELSE /\ food' \in FoodChoices(<<Center(w, h)>>, w, h)
            /\ score' = 0
            /\ game_over' = FALSE
            /\ ai_mode' = FALSE
            /\ difficulty' = DefaultDifficulty
            /\ IF LoadRaises(store)
               THEN call' = "raised" /\ UNCHANGED high_score
               ELSE call' = "idle" /\ high_score' = load_high_score(store)
    /\ UNCHANGED store

----------------------------------------------------------------------------
(* SnakeGame.move_snake *)

NewHead(s, d) == Position(s[1].row + DirValue(d)[1], s[1].col + DirValue(d)[2])

WallCollisionOffByOne(p, w, h) ==
    p.row < 0 \/ p.row >= h - 1 \/ p.col < 0 \/ p.col >= w - 1

WallCollision(p, w, h) == p.row < 0 \/ p.row >= h \/ p.col < 0 \/ p.col >= w

InsertedAtTail(s, p) == s \o <<p>>

Inserted(s, p) == <<p>> \o s

PoppedNothing(s) == s

Popped(s) == SubSeq(s, 1, Len(s) - 1)

SelfCollisionNever(p, s) == FALSE

SelfCollisionButTail(p, s) == p \in Range(Popped(s))

SelfCollision(p, s) == p \in Range(s)

FoodCollision(p, f) == p = f

EatScoreOne(sc) == sc + 1

EatScore(sc) == sc + 10

MoveOutcomeNoGuard(s, d, f, w, h, over) ==
    IF WallCollision(NewHead(s, d), w, h) THEN "ended"
    ELSE IF SelfCollision(NewHead(s, d), s) THEN "ended"
    ELSE IF FoodCollision(NewHead(s, d), f) THEN "ate"
    ELSE "moved"

\* which way through move_snake a call takes
MoveOutcome(s, d, f, w, h, over) ==
    IF over THEN "noop"                                        \* lines 111-112
    ELSE IF WallCollision(NewHead(s, d), w, h) THEN "ended"     \* lines 121-124
    ELSE IF SelfCollision(NewHead(s, d), s) THEN "ended"        \* lines 127-129
    ELSE IF FoodCollision(NewHead(s, d), f) THEN "ate"          \* lines 134-136
    ELSE "moved"                                               \* lines 137-138

move_snake ==
    LET new_head == NewHead(snake, direction)
        outcome == MoveOutcome(snake, direction, food, width, height, game_over)
    IN
    CASE outcome = "noop" ->
            UNCHANGED gvars
      [] outcome = "ended" ->
            /\ game_over' = TRUE
            /\ UNCHANGED <<width, height, snake, direction, food, score,
                           ai_mode, difficulty, high_score, store, call>>
      [] outcome = "ate" ->
            /\ Len(snake) < MaxLen
            /\ snake' = Inserted(snake, new_head)
            /\ score' = EatScore(score)
            /\ generate_food(Inserted(snake, new_head))
            /\ UNCHANGED <<width, height, direction, game_over, ai_mode,
                           difficulty, high_score, store>>
      [] outcome = "moved" ->
            /\ snake' = Popped(Inserted(snake, new_head))
            /\ UNCHANGED <<width, height, direction, food, score, game_over,
                           ai_mode, difficulty, high_score, store, call>>

----------------------------------------------------------------------------
(* SnakeGame.change_direction *)

opposite_directions(d) ==
    CASE d = "UP"    -> "DOWN"
      [] d = "DOWN"  -> "UP"
      [] d = "LEFT"  -> "RIGHT"
      [] d = "RIGHT" -> "LEFT"

TurnedAlways(cur, new_direction) == new_direction

\* the value of self.direction after change_direction(new_direction)
Turned(cur, new_direction) ==
    IF opposite_directions(new_direction) # cur THEN new_direction ELSE cur

change_direction(new_direction) ==
    /\ direction' = Turned(direction, new_direction)
    /\ UNCHANGED <<width, height, snake, food, score, game_over, ai_mode,
                   difficulty, high_score, store, call>>

----------------------------------------------------------------------------
(* SnakeGame.ai_move *)

Candidate(head, d) == Position(head.row + DirValue(d)[1], head.col + DirValue(d)[2])

Manhattan(p, f) == Abs(p.row - f.row) + Abs(p.col - f.col)

IsSafe(d, s, w, h) ==
    /\ InBounds(Candidate(s[1], d), w, h)
    /\ Candidate(s[1], d) \notin Range(s)

safe_directions(s, w, h) == SelectSeq(DirOrder, LAMBDA d : IsSafe(d, s, w, h))

\* min(safe_directions, key = distance of the candidate head to the food):
\* the first element of the list with the least key
best_direction(s, f, w, h) ==
    LET safe == safe_directions(s, w, h)
        k(i) == Manhattan(Candidate(s[1], safe[i]), f)
        i == CHOOSE i \in 1..Len(safe) :
                /\ \A j \in 1..Len(safe) : k(i) <= k(j)
                /\ \A j \in 1..(i - 1) : k(j) > k(i)
    IN safe[i]

\* the branch for a snake of one segment: the direction requested, or "none"
SingleSegmentRequest(head, f) ==
    IF head.col < f.col THEN "RIGHT"
    ELSE IF head.col > f.col THEN "LEFT"
    ELSE IF head.row < f.row THEN "DOWN"
    ELSE IF head.row > f.row THEN "UP"
    ELSE "none"

\* the argument ai_move passes to change_direction, "none" if it makes no call
AiRequest(s, f, w, h) ==
    IF Len(s) = 1
    THEN SingleSegmentRequest(s[1], f)
    ELSE IF Len(safe_directions(s, w, h)) > 0
         THEN best_direction(s, f, w, h)
         ELSE "none"

ai_move ==
    LET req == AiRequest(snake, food, width, height) IN
    IF req = "none"
    THEN UNCHANGED gvars
    ELSE change_direction(req)

----------------------------------------------------------------------------
(* SnakeGame.save_high_score, the end of draw_game, reset_game *)

NewHighScoreAlways(sc, hs) == TRUE

\* draw_game line 105
NewHighScore(sc, hs) == sc > hs

save_high_score(sc) ==
    /\ high_score' = sc
    /\ store' = Stored(sc)
    /\ writes' = writes + 1

ShouldSaveWhenLive(over, sc, hs) == NewHighScore(sc, hs)

\* draw_game lines 102 and 105: the condition under which it saves
ShouldSave(over, sc, hs) == over /\ NewHighScore(sc, hs)

\* draw_game: printing aside, the game-over branch
draw_game ==
    /\ IF ShouldSave(game_over, score, high_score)
       THEN save_high_score(score)
       ELSE UNCHANGED <<high_score, store, writes>>
    /\ UNCHANGED <<width, height, snake, direction, food, score, game_over,
                   ai_mode, difficulty, call>>

StartSnakeCorner(w, h) == <<Position(0, 0)>>

StartSnake(w, h) == <<Center(w, h)>>

StartDirection == "RIGHT"

StartScore == 0

\* the assignments of reset_game; the caller frames ai_mode
ResetBody ==
    /\ snake' = StartSnake(width, height)
    /\ direction' = StartDirection
    /\ generate_food(StartSnake(width, height))
    /\ IF FoodChoices(StartSnake(width, height), width, height) = {}
       THEN UNCHANGED <<score, game_over>>     \* lines 212-213 are not reached
       ELSE score' = StartScore /\ game_over' = FALSE
    /\ UNCHANGED <<width, height, difficulty, high_score, store>>

reset_game == ResetBody /\ UNCHANGED ai_mode

----------------------------------------------------------------------------
(* Spec: the methods of one SnakeGame called in any order *)

Call(op, arg) == [op |-> op, arg |-> arg]

Init ==
    /\ width = 0 /\ height = 0
    /\ snake = <<>>
    /\ direction = "RIGHT"
    /\ food = NoPosition
    /\ score = 0
    /\ game_over = FALSE
    /\ ai_mode = FALSE
    /\ difficulty = DefaultDifficulty
    /\ high_score = 0
    /\ store \in {Absent, Corrupt, Stored(10 * MaxStored)}
    /\ call = "none"
    /\ pc = "harness"
    /\ key = "-"
    /\ last = Call("none", "-")
    /\ stored_before = 0
    /\ moved = "none"
    /\ writes = 0
    /\ arr = <<>> /\ orig = <<>> /\ bi = 0 /\ bj = 0

\* the direction a move_snake call uses, when it gets past the game_over test
MovedAfter == IF game_over THEN moved ELSE direction

New ==
    /\ pc = "harness"
    /\ \E size \in GridSizes \cup ScenarioSizes : Construct(size[1], size[2])
    /\ last' = Call("__init__", "-")
    /\ moved' = "none"
    /\ UNCHANGED <<pc, key, stored_before, writes, sortvars>>

AnyOrder == <<width, height>> \in GridSizes

Reset ==
    /\ pc = "harness" /\ call = "idle" /\ AnyOrder
    /\ reset_game
    /\ last' = Call("reset_game", "-")
    /\ moved' = "none"
    /\ UNCHANGED <<pc, key, stored_before, writes, sortvars>>

Turn ==
    /\ pc = "harness" /\ call = "idle" /\ AnyOrder
    /\ \E d \in Direction :
        /\ change_direction(d)
        /\ last' = Call("change_direction", d)
    /\ UNCHANGED <<pc, key, stored_before, moved, writes, sortvars>>

Ai ==
    /\ pc = "harness" /\ call = "idle" /\ AnyOrder
    /\ ai_move
    /\ last' = Call("ai_move", "-")
    /\ UNCHANGED <<pc, key, stored_before, moved, writes, sortvars>>

Move ==
    /\ pc = "harness" /\ call = "idle"
    /\ move_snake
    /\ last' = Call("move_snake",
                     MoveOutcome(snake, direction, food, width, height, game_over))
    /\ moved' = MovedAfter
    /\ UNCHANGED <<pc, key, stored_before, writes, sortvars>>

Next == New \/ Reset \/ Turn \/ Ai \/ Move

Spec == Init /\ [][Next]_vars

----------------------------------------------------------------------------
(* SpecInterface: main(), SnakeGameInterface.run and the two play loops *)

Keys == {"w", "s", "a", "d", "q", "x"}      \* "x": any other input

KeyDirection(k) ==
    CASE k = "w" -> "UP"
      [] k = "s" -> "DOWN"
      [] k = "a" -> "LEFT"
      [] k = "d" -> "RIGHT"
      [] OTHER   -> "none"

InitInterface ==
    /\ width = 0 /\ height = 0
    /\ snake = <<>>
    /\ direction = "RIGHT"
    /\ food = NoPosition
    /\ score = 0
    /\ game_over = FALSE
    /\ ai_mode = FALSE
    /\ difficulty = DefaultDifficulty
    /\ high_score = 0
    /\ store \in InitialStores
    /\ call = "none"
    /\ pc = "start"
    /\ key = "-"
    /\ last = Call("none", "-")
    /\ stored_before = 0
    /\ moved = "none"
    /\ writes = 0
    /\ arr = <<>> /\ orig = <<>> /\ bi = 0 /\ bj = 0

\* main(): SnakeGameInterface() builds SnakeGame() and run() shows the menu
Main ==
    /\ pc = "start"
    /\ Construct(InterfaceSize[1], InterfaceSize[2])
    /\ pc' = IF call' = "idle" THEN "menu" ELSE "start"
    /\ last' = Call("__init__", "-")
    /\ moved' = "none"
    /\ UNCHANGED <<key, stored_before, writes, sortvars>>

\* choice "1": play_manual_game, its reset_game (line 234)
MenuManual ==
    /\ pc = "menu" /\ call = "idle"
    /\ reset_game
    /\ pc' = "manual_start"
    /\ last' = Call("reset_game", "-")
    /\ stored_before' = StoreValue(store)
    /\ moved' = "none"
    /\ writes' = 0
    /\ UNCHANGED <<key, sortvars>>

\* lines 235-240: ai_mode = False and the wait for Enter
ManualStart ==
    /\ pc = "manual_start" /\ call = "idle"
    /\ ai_mode' = FALSE
    /\ pc' = "manual_loop"
    /\ UNCHANGED <<width, height, snake, direction, food, score, game_over,
                   difficulty, high_score, store, call>>
    /\ UNCHANGED <<key, last, stored_before, moved, writes, sortvars>>

\* the test of `while not self.game.game_over` and the draw_game of line 243
ManualLoop ==
    /\ pc = "manual_loop" /\ call = "idle"
    /\ IF game_over
       THEN /\ pc' = "manual_end"
            /\ UNCHANGED <<gvars, last, writes>>
       ELSE /\ draw_game
            /\ pc' = "manual_input"
            /\ last' = Call("draw_game", "-")
    /\ UNCHANGED <<key, stored_before, moved, sortvars>>

\* input() and the dispatch on the key, lines 247-258
ManualInput ==
    /\ pc = "manual_input"
    /\ \E k \in Keys :
        /\ key' = k
        /\ IF k = "q"
           THEN /\ pc' = "manual_end"
                /\ UNCHANGED <<gvars, last>>
           ELSE IF KeyDirection(k) # "none"
           THEN /\ change_direction(KeyDirection(k))
                /\ pc' = "manual_move"
                /\ last' = Call("change_direction", KeyDirection(k))
           ELSE /\ pc' = "manual_move"
                /\ UNCHANGED <<gvars, last>>
    /\ UNCHANGED <<stored_before, moved, writes, sortvars>>

\* line 260
ManualMove ==
    /\ pc = "manual_move"
    /\ move_snake
    /\ pc' = "manual_loop"
    /\ key' = "-"
    /\ last' = Call("move_snake",
                     MoveOutcome(snake, direction, food, width, height, game_over))
    /\ moved' = MovedAfter
    /\ UNCHANGED <<stored_before, writes, sortvars>>

\* the draw_game after the loop (line 266) and the return to the menu
ManualEnd ==
    /\ pc = "manual_end"
    /\ draw_game
    /\ pc' = "menu"
    /\ last' = Call("draw_game", "end")
    /\ UNCHANGED <<key, stored_before, moved, sortvars>>

\* choice "2": play_ai_game, its reset_game (line 271)
MenuAi ==
    /\ pc = "menu" /\ call = "idle"
    /\ reset_game
    /\ pc' = "ai_start"
    /\ key' = "-"
    /\ last' = Call("reset_game", "-")
    /\ stored_before' = StoreValue(store)
    /\ moved' = "none"
    /\ writes' = 0
    /\ UNCHANGED sortvars

\* lines 272-277: ai_mode = True and the wait for Enter
AiStart ==
    /\ pc = "ai_start" /\ call = "idle"
    /\ ai_mode' = TRUE
    /\ pc' = "ai_loop"
    /\ UNCHANGED <<width, height, snake, direction, food, score, game_over,
                   difficulty, high_score, store, call>>
    /\ UNCHANGED <<key, last, stored_before, moved, writes, sortvars>>

AiLoop ==
    /\ pc = "ai_loop" /\ call = "idle"
    /\ IF game_over
       THEN /\ pc' = "ai_end"
            /\ UNCHANGED <<gvars, last, writes>>
       ELSE /\ draw_game
            /\ pc' = "ai_think"
            /\ last' = Call("draw_game", "-")
    /\ UNCHANGED <<key, stored_before, moved, sortvars>>

\* line 281
AiThink ==
    /\ pc = "ai_think"
    /\ ai_move
    /\ pc' = "ai_step"
    /\ last' = Call("ai_move", "-")
    /\ UNCHANGED <<key, stored_before, moved, writes, sortvars>>

\* line 282
AiStep ==
    /\ pc = "ai_step"
    /\ move_snake
    /\ pc' = "ai_loop"
    /\ last' = Call("move_snake",
                     MoveOutcome(snake, direction, food, width, height, game_over))
    /\ moved' = MovedAfter
    /\ UNCHANGED <<key, stored_before, writes, sortvars>>

\* the draw_game after the loop (line 285) and the return to the menu
AiEnd ==
    /\ pc = "ai_end"
    /\ draw_game
    /\ pc' = "menu"
    /\ last' = Call("draw_game", "end")
    /\ UNCHANGED <<key, stored_before, moved, sortvars>>

\* choice "3": show_settings, a difficulty chosen and back to the menu
MenuSettings ==
    /\ pc = "menu" /\ call = "idle"
    /\ difficulty' \in Difficulties
    /\ UNCHANGED <<width, height, snake, direction, food, score, game_over,
                   ai_mode, high_score, store, call>>
    /\ UNCHANGED <<pc, key, last, stored_before, moved, writes, sortvars>>

\* choice "5"
MenuExit ==
    /\ pc = "menu"
    /\ pc' = "exited"
    /\ UNCHANGED <<gvars, key, last, stored_before, moved, writes, sortvars>>

\* the program is started again: only the file survives the process
Relaunch ==
    /\ pc = "exited"
    /\ width' = 0 /\ height' = 0
    /\ snake' = <<>>
    /\ direction' = "RIGHT"
    /\ food' = NoPosition
    /\ score' = 0
    /\ game_over' = FALSE
    /\ ai_mode' = FALSE
    /\ difficulty' = DefaultDifficulty
    /\ high_score' = 0
    /\ call' = "none"
    /\ pc' = "start"
    /\ key' = "-"
    /\ last' = Call("none", "-")
    /\ stored_before' = 0
    /\ moved' = "none"
    /\ writes' = 0
    /\ UNCHANGED <<store, sortvars>>

NextInterface ==
    \/ Main \/ MenuManual \/ ManualStart \/ ManualLoop \/ ManualInput
    \/ ManualMove \/ ManualEnd
    \/ MenuAi \/ AiStart \/ AiLoop \/ AiThink \/ AiStep \/ AiEnd
    \/ MenuSettings \/ MenuExit \/ Relaunch

SpecInterface == InitInterface /\ [][NextInterface]_vars

----------------------------------------------------------------------------
(* SpecFood: the while True loop of generate_food taken one sample at a     *)
(* time. call = "sampling" while a method is inside the loop; last.op is    *)
(* the method that called generate_food and resumes when it returns.        *)

\* grids small enough for the snake to fill
FoodSizes == {<<1, 1>>, <<2, 2>>}

SampleAcceptedAlways(p, s) == TRUE

\* line 70: `if food not in self.snake`
SampleAccepted(p, s) == p \notin Range(s)

\* __init__ up to its call of generate_food (lines 48-52)
FNew ==
    /\ pc = "harness" /\ call = "none"
    /\ \E size \in FoodSizes :
        /\ width' = size[1]
        /\ height' = size[2]
        /\ snake' = <<Center(size[1], size[2])>>
    /\ direction' = "RIGHT"
    /\ call' = "sampling"
    /\ last' = Call("__init__", "-")
    /\ moved' = "none"
    /\ UNCHANGED <<food, score, game_over, ai_mode, difficulty, high_score, store>>
    /\ UNCHANGED <<pc, key, stored_before, writes, sortvars>>

\* reset_game up to its call of generate_food (lines 209-211)
FReset ==
    /\ pc = "harness" /\ call = "idle"
    /\ snake' = StartSnake(width, height)
    /\ direction' = StartDirection
    /\ call' = "sampling"
    /\ last' = Call("reset_game", "-")
    /\ moved' = "none"
    /\ UNCHANGED <<width, height, food, score, game_over, ai_mode, difficulty,
                   high_score, store>>
    /\ UNCHANGED <<pc, key, stored_before, writes, sortvars>>

\* move_snake; when it eats, up to its call of generate_food (lines 131-136)
FMove ==
    /\ pc = "harness" /\ call = "idle"
    /\ IF MoveOutcome(snake, direction, food, width, height, game_over) = "ate"
       THEN /\ Len(snake) < MaxLen
            /\ snake' = Inserted(snake, NewHead(snake, direction))
            /\ score' = EatScore(score)
            /\ call' = "sampling"
            /\ UNCHANGED <<width, height, direction, food, game_over, ai_mode,
                           difficulty, high_score, store>>
       ELSE move_snake
    /\ last' = Call("move_snake",
                     MoveOutcome(snake, direction, food, width, height, game_over))
    /\ moved' = MovedAfter
    /\ UNCHANGED <<pc, key, stored_before, writes, sortvars>>

\* generate_food returns p and the calling method runs to its end
Returned(p) ==
    /\ food' = p
    /\ CASE last.op = "__init__" ->
              /\ score' = 0
              /\ game_over' = FALSE
              /\ ai_mode' = FALSE
              /\ difficulty' = DefaultDifficulty
              /\ IF LoadRaises(store)
                 THEN call' = "raised" /\ UNCHANGED high_score
                 ELSE call' = "idle" /\ high_score' = load_high_score(store)
         [] last.op = "reset_game" ->
              /\ score' = StartScore
              /\ game_over' = FALSE
              /\ call' = "idle"
              /\ UNCHANGED <<ai_mode, difficulty, high_score>>
         [] OTHER ->
              /\ call' = "idle"
              /\ UNCHANGED <<score, game_over, ai_mode, difficulty, high_score>>
    /\ UNCHANGED <<width, height, snake, direction, store>>
    /\ UNCHANGED <<pc, key, last, stored_before, moved, writes, sortvars>>

\* one pass of the loop that draws a cell off the snake
FSampleFree ==
    /\ call = "sampling"
    /\ \E p \in Cells(width, height) : SampleAccepted(p, snake) /\ Returned(p)

\* one pass of the loop that draws a cell of the snake: the loop goes round
FSampleTaken ==
    /\ call = "sampling"
    /\ \E p \in Cells(width, height) : ~SampleAccepted(p, snake)
    /\ UNCHANGED vars

NextFood == FNew \/ FReset \/ FMove \/ Turn \/ Ai \/ FSampleFree \/ FSampleTaken

\* random.randint draws every cell with positive probability on every pass, so
\* a pass that draws a free cell is not postponed forever while one exists
SpecFood == Init /\ [][NextFood]_vars /\ WF_vars(FSampleFree)

----------------------------------------------------------------------------
(* bubble_sort.py: bubble_sort(arr), one step per loop test or comparison *)

\* longest list passed to bubble_sort
MaxArrLen == 4
\* the list's elements are drawn from -MaxValue .. MaxValue
MaxValue == 1

Values == (0 - MaxValue)..MaxValue

Lists == UNION {[1..n -> Values] : n \in 0..MaxArrLen}

InnerBoundShort(n, i) == n - i - 2

\* line 4: range(0, n-i-1)
InnerBound(n, i) == n - i - 1

\* lines 5-6 on the list a at the 0-based index j
CompareSwap(a, j) ==
    IF a[j + 1] > a[j + 2]
    THEN [a EXCEPT ![j + 1] = a[j + 2], ![j + 2] = a[j + 1]]
    ELSE a

InitSort ==
    /\ width = 0 /\ height = 0
    /\ snake = <<>>
    /\ direction = "RIGHT"
    /\ food = NoPosition
    /\ score = 0
    /\ game_over = FALSE
    /\ ai_mode = FALSE
    /\ difficulty = DefaultDifficulty
    /\ high_score = 0
    /\ store = Absent
    /\ call = "none"
    /\ pc = "sort_outer"
    /\ key = "-"
    /\ last = Call("none", "-")
    /\ stored_before = 0
    /\ moved = "none"
    /\ writes = 0
    /\ arr \in Lists
    /\ orig = arr
    /\ bi = 0
    /\ bj = 0

\* line 3: for i in range(n), the next i or the end of the loop
SortOuter ==
    /\ pc = "sort_outer"
    /\ IF bi < Len(arr)
       THEN pc' = "sort_inner" /\ bj' = 0
       ELSE pc' = "sort_done" /\ bj' = bj
    /\ UNCHANGED <<gvars, key, last, stored_before, moved, writes,
                   arr, orig, bi>>

\* lines 4-6: one j of the inner loop
SortCompare ==
    /\ pc = "sort_inner"
    /\ bj < InnerBound(Len(arr), bi)
    /\ arr' = CompareSwap(arr, bj)
    /\ bj' = bj + 1
    /\ UNCHANGED <<gvars, pc, key, last, stored_before, moved, writes,
                   orig, bi>>

\* line 4: the inner range is exhausted, on to the next i
SortInnerDone ==
    /\ pc = "sort_inner"
    /\ bj >= InnerBound(Len(arr), bi)
    /\ bi' = bi + 1
    /\ pc' = "sort_outer"
    /\ UNCHANGED <<gvars, key, last, stored_before, moved, writes,
                   arr, orig, bj>>

NextSort == SortOuter \/ SortCompare \/ SortInnerDone

SpecSort == InitSort /\ [][NextSort]_vars

----------------------------------------------------------------------------
(* Properties *)

\* a call has returned and the game is not over
Live == call = "idle" /\ ~game_over

\* the step is a call of move_snake (every call records itself in last)
MoveCalled == call = "idle" /\ last'.op = "move_snake"

Max(a, b) == IF a >= b THEN a ELSE b

\* C1: while the game is live, no two segments of the snake are on the same
\* cell.
SegmentsDistinct ==
    Live => \A i, j \in 1..Len(snake) : i # j => snake[i] # snake[j]

SegmentsDistinctWitness ==
    /\ Live
    /\ Len(snake) >= 4
    /\ last.op = "move_snake"

\* C2: whenever a call has returned (construction, reset_game, move_snake that
\* ate, moved or ended the game), the food is on no cell of the snake.
FoodOffSnake == call = "idle" => food \notin Range(snake)

FoodOffSnakeWitness ==
    /\ call = "idle"
    /\ last = Call("move_snake", "ate")
    /\ Len(snake) >= 3
    /\ food \notin Range(snake)

\* C3: move_snake called when game_over is already true changes nothing: snake,
\* direction, food, score, high score and game_over stay as they were.
MoveAfterGameOverIsNoOp ==
    [][(MoveCalled /\ game_over) =>
          UNCHANGED <<snake, direction, food, score, high_score, game_over>>]_vars

MoveAfterGameOverWitness ==
    /\ game_over
    /\ last = Call("move_snake", "noop")
    /\ Len(snake) >= 2

\* C4: a move_snake call on a live game that does not end it adds one segment
\* and 10 points when the new head is on the food, and otherwise leaves length
\* and score as they were.
EatGrowsByOneAndTen ==
    [][(MoveCalled /\ ~game_over /\ ~game_over' /\ call' = "idle") =>
          IF NewHead(snake, direction) = food
          THEN Len(snake') = Len(snake) + 1 /\ score' = score + 10
          ELSE Len(snake') = Len(snake) /\ score' = score]_vars

EatGrowsWitness ==
    /\ Live
    /\ last = Call("move_snake", "ate")
    /\ Len(snake) = 3
    /\ score = 20

\* C5: change_direction(r) keeps the direction d when r is the opposite of d and
\* sets it to r otherwise; snake, food, score and game_over are untouched.
ChangeDirectionRule ==
    [][(call = "idle" /\ last'.op = "change_direction") =>
          /\ direction' = IF last'.arg = opposite_directions(direction)
                          THEN direction
                          ELSE last'.arg
          /\ call' = "idle"
          /\ UNCHANGED <<snake, food, score, game_over>>]_vars

ChangeDirectionWitness ==
    /\ last.op = "change_direction"
    /\ direction = opposite_directions(last.arg)
    /\ Len(snake) >= 2
    /\ ~game_over

\* C6: after ai_move on a live game with at least one safe direction, the next
\* head along the active direction is at a Manhattan distance to the food no
\* greater than the next head of any safe direction.
AiPicksNearestSafe ==
    (Live /\ last.op = "ai_move"
          /\ \E d \in Direction : IsSafe(d, snake, width, height)) =>
        \A d \in Direction :
            IsSafe(d, snake, width, height) =>
                Manhattan(NewHead(snake, direction), food)
                    <= Manhattan(Candidate(snake[1], d), food)

\* C7: on a live game whose next head is outside the grid or on any segment of
\* the snake (the last one included), move_snake sets game_over and leaves
\* snake, direction, food and score as they were.
CollisionEndsGame ==
    [][(MoveCalled /\ ~game_over
          /\ (\/ ~InBounds(NewHead(snake, direction), width, height)
              \/ \E i \in 1..Len(snake) : snake[i] = NewHead(snake, direction))) =>
          /\ game_over'
          /\ call' = "idle"
          /\ UNCHANGED <<snake, direction, food, score>>]_vars

CollisionOnLastSegmentWitness ==
    /\ game_over
    /\ last = Call("move_snake", "ended")
    /\ Len(snake) >= 4
    /\ NewHead(snake, direction) = snake[Len(snake)]

\* C8: on a live game whose next head is in bounds and off the snake, move_snake
\* puts the old head plus the direction's delta in front; behind it come the old
\* segments in order, all of them when the food was eaten and all but the last
\* when it was not.
MoveShiftsSnake ==
    [][(MoveCalled /\ ~game_over /\ call' = "idle"
          /\ InBounds(NewHead(snake, direction), width, height)
          /\ NewHead(snake, direction) \notin Range(snake)) =>
          /\ snake'[1].row = snake[1].row + DirValue(direction)[1]
          /\ snake'[1].col = snake[1].col + DirValue(direction)[2]
          /\ direction' = direction
          /\ Tail(snake') = IF NewHead(snake, direction) = food
                            THEN snake
                            ELSE SubSeq(snake, 1, Len(snake) - 1)]_vars

\* the 5 x 5 scenario: from (2,2) facing right, stepped to (2,3) and then onto
\* the food at (2,4)
MoveScenarioWitness ==
    /\ width = 5 /\ height = 5
    /\ direction = "RIGHT"
    /\ snake = <<Position(2, 4), Position(2, 3)>>
    /\ score = 10
    /\ last = Call("move_snake", "ate")

\* a session has just returned to the menu after its closing draw_game
SessionEnded == pc = "menu" /\ last = Call("draw_game", "end")

\* C9 as stated: the stored high score never decreases, and after any session
\* that ends with score S it is the larger of S and the value stored before.
StoreIsMaxAfterSession ==
    /\ [][StoreValue(store') >= StoreValue(store)]_vars
    /\ [](SessionEnded => StoreValue(store) = Max(stored_before, score))

\* C9 amended: the stored high score never decreases, and after a session that
\* ends with game_over true and score S it is the larger of S and the value
\* stored before, the store being left as it was when S is not greater.
StoreIsMaxAfterGameOver ==
    /\ [][StoreValue(store') >= StoreValue(store)]_vars
    /\ [](SessionEnded /\ game_over =>
            /\ StoreValue(store) = Max(stored_before, score)
            /\ score <= stored_before => StoreValue(store) = stored_before)
    /\ [][(pc \in {"manual_end", "ai_end"} /\ game_over /\ score <= StoreValue(store))
            => store' = store]_vars

StoreKeptOnLowerScoreWitness ==
    /\ SessionEnded
    /\ game_over
    /\ stored_before = 30
    /\ score = 20
    /\ store = Stored(30)

\* C10: loading the high score at startup gives 0 when the store is absent and
\* when it is unreadable, and construction of the game is never aborted.
LoadDefaultsToZero ==
    (last.op = "__init__" /\ store.kind \in {"absent", "corrupt"}) =>
        (call = "idle" /\ high_score = 0)

\* C11: game_over goes from false to true only in move_snake, and only when the
\* next head is outside the grid or on the snake; while it is true, move_snake,
\* change_direction and ai_move keep it true, and only reset_game clears it.
GameOverTransitions ==
    [][/\ (~game_over /\ game_over') =>
            /\ call = "idle" /\ last'.op = "move_snake"
            /\ \/ ~InBounds(NewHead(snake, direction), width, height)
               \/ NewHead(snake, direction) \in Range(snake)
       /\ (game_over /\ ~game_over') => last'.op = "reset_game"
       /\ (game_over /\ last'.op \in {"move_snake", "change_direction", "ai_move"})
            => game_over']_vars

GameOverStaysWitness ==
    /\ game_over
    /\ last.op = "ai_move"
    /\ Len(snake) >= 2

\* the step is a call of reset_game, by the harness or from the menu
ResetCalled == call = "idle" /\ pc \in {"harness", "menu"} /\ last'.op = "reset_game"

\* C12: reset_game, from any state in which it returns, leaves one segment at
\* (height // 2, width // 2), direction RIGHT, score 0, game_over false and the
\* food off the snake; grid size, high score, ai_mode and difficulty are kept.
ResetGameResult ==
    [][(ResetCalled /\ call' = "idle") =>
          /\ snake' = <<Position(height \div 2, width \div 2)>>
          /\ direction' = "RIGHT"
          /\ score' = 0
          /\ ~game_over'
          /\ InBounds(food', width, height)
          /\ food' \notin Range(snake')
          /\ UNCHANGED <<width, height, high_score, ai_mode, difficulty>>]_vars

ResetGameWitness ==
    /\ pc = "manual_start"
    /\ last.op = "reset_game"
    /\ ai_mode
    /\ difficulty = "0.05"
    /\ high_score = 30
    /\ snake = <<Position(1, 1)>> /\ score = 0 /\ ~game_over

\* the safe directions whose next head is nearest to the food
TiedDirections ==
    {d \in Direction :
        /\ IsSafe(d, snake, width, height)
        /\ \A e \in Direction :
              IsSafe(e, snake, width, height) =>
                  Manhattan(Candidate(snake[1], d), food)
                      <= Manhattan(Candidate(snake[1], e), food)}

\* C13: when several safe directions tie for the least distance to the food,
\* the direction after ai_move is the first of them in the order UP, DOWN,
\* LEFT, RIGHT.
AiTieBreakFirstInOrder ==
    (Live /\ last.op = "ai_move" /\ Cardinality(TiedDirections) >= 2) =>
        \E i \in 1..4 :
            /\ direction = DirOrder[i]
            /\ DirOrder[i] \in TiedDirections
            /\ \A j \in 1..(i - 1) : DirOrder[j] \notin TiedDirections

\* C14: the direction a move_snake call uses is never the opposite of the
\* direction the previous move_snake call used, whatever change_direction calls
\* come between, so a snake of two or more segments never ends the game by
\* stepping onto its second segment.
NoReversalBetweenMoves ==
    /\ [][(MoveCalled /\ ~game_over /\ moved # "none") =>
            direction # opposite_directions(moved)]_vars
    /\ []((last = Call("move_snake", "ended") /\ Len(snake) >= 2) =>
            NewHead(snake, direction) # snake[2])

\* the snake covers the whole grid
BoardFull == call # "none" /\ FoodChoices(snake, width, height) = {}

\* C15: generate_food returns whenever a cell is free, and on a full board it
\* never returns: the calling method stays inside it, and the game neither ends
\* nor changes.
GenerateFoodTermination ==
    /\ (call = "sampling" /\ ~BoardFull) ~> (call # "sampling")
    /\ [](BoardFull => (call = "sampling" /\ ~game_over))
    /\ [][(call = "sampling" /\ BoardFull) =>
            (call' = "sampling" /\ UNCHANGED <<snake, food, score, game_over>>)]_vars

FullBoardWitness ==
    /\ call = "sampling"
    /\ last = Call("move_snake", "ate")
    /\ width = 2 /\ height = 2
    /\ Len(snake) = 4
    /\ BoardFull

\* C16: in a session of the interface the store is never written while the game
\* is live; the closing draw_game of a session that ended with game_over writes
\* it once when the score is greater than the high score and not at all
\* otherwise, and after it a further draw_game would write nothing.
StoreWrittenOncePerSession ==
    /\ [][(store' # store \/ writes' > writes) =>
            (game_over /\ pc \in {"manual_end", "ai_end"})]_vars
    /\ [][(game_over /\ pc \in {"manual_end", "ai_end"}) =>
            /\ writes = 0
            /\ writes' = IF score > high_score THEN 1 ELSE 0
            /\ score > high_score => store' = Stored(score)
            /\ score <= high_score => store' = store]_vars
    /\ [](SessionEnded => (writes <= 1 /\ ~(game_over /\ score > high_score)))

StoreWrittenOnceWitness ==
    /\ SessionEnded
    /\ game_over
    /\ writes = 1
    /\ stored_before = 10
    /\ store = Stored(20)

\* C17 (first half): after ai_move in AI mode, if some direction is safe then
\* the active direction is safe.
AiDirectionIsSafe ==
    (pc = "ai_step" /\ \E d \in Direction : IsSafe(d, snake, width, height)) =>
        IsSafe(direction, snake, width, height)

\* C17: in AI mode a tick ends the session only if no direction was safe at its
\* start; if one was, the direction after ai_move is safe and move_snake leaves
\* game_over false.
AiTickEndsOnlyWhenTrapped ==
    /\ AiDirectionIsSafe
    /\ (pc = "ai_loop" /\ last = Call("move_snake", "ended")) =>
          \A d \in Direction : ~IsSafe(d, snake, width, height)

\* C18: once the game is constructed the score is a non-negative multiple of 10
\* equal to 10 * (length of the snake - 1), and only reset_game lowers it.
ScoreTracksLength ==
    /\ [](call # "none" =>
            /\ score >= 0
            /\ score % 10 = 0
            /\ score = 10 * (Len(snake) - 1))
    /\ [][score' < score => last'.op = "reset_game"]_vars

ScoreTracksLengthWitness ==
    /\ game_over
    /\ last = Call("move_snake", "ended")
    /\ score = 30
    /\ Len(snake) = 4

\* C19: a manual session ended with the quit key while the game is live writes
\* nothing to the store and leaves the in-memory high score alone, whatever its
\* score; the high score changes only when game_over is true.
QuitWritesNothing ==
    /\ [][(pc = "manual_end" /\ ~game_over) =>
            UNCHANGED <<store, high_score, writes>>]_vars
    /\ []((SessionEnded /\ ~game_over) =>
            (writes = 0 /\ StoreValue(store) = stored_before))
    /\ [][(high_score' # high_score /\ pc \notin {"start", "exited"}) =>
            game_over]_vars

QuitWitness ==
    /\ SessionEnded
    /\ key = "q"
    /\ ~game_over
    /\ score = 20
    /\ high_score = 0
    /\ store = Absent

\* number of occurrences of v in the list s
Count(s, v) == Cardinality({k \in 1..Len(s) : s[k] = v})

Sorted(s) == \A k \in 1..(Len(s) - 1) : s[k] <= s[k + 1]

\* C20: bubble_sort leaves arr in non-decreasing order; arr holds the same
\* elements as the original list, each as often, and has the same length,
\* throughout the call (the list is changed in place by swaps only).
BubbleSortSorts ==
    /\ Len(arr) = Len(orig)
    /\ \A v \in Values : Count(arr, v) = Count(orig, v)
    /\ pc = "sort_done" => Sorted(arr)

BubbleSortWitness ==
    /\ pc = "sort_done"
    /\ orig = <<1, 0, 1, -1>>
    /\ arr = <<-1, 0, 1, 1>>

====
